---------------------------- MODULE Spec2Model ----------------------------
(***************************************************************************)
(* Personal Finance Management (src/main.py): the category store, its      *)
(* persistence in categories.json, the keyword categorisation engine, the  *)
(* keyword learning of the "Apply changes" handlers and the Streamlit      *)
(* script runs that tie them together.                                     *)
(*                                                                         *)
(* Text is a sequence of one-character strings, so that lower(), strip(),  *)
(* split(), join() and the substring test `in` are computed, not assumed.  *)
(* The category store is a sequence of [name, keywords] entries: a Python  *)
(* dict in insertion order.                                                *)
(***************************************************************************)
EXTENDS Integers, Sequences, FiniteSets, TLC

VARIABLES
    categories,   \* st.session_state.categories
    file,         \* the content of categories.json, or NoFile
    saves,        \* number of save_categories() calls so far
    uploaded,     \* the file held by st.file_uploader: a ledger id, or NoUpload
    debit_df,     \* st.session_state.debit_df: index -> row
    credit_df,    \* st.session_state.credit_df: index -> row
    pc,           \* where the running script is: idle, loop, rerun
    commit,       \* locals of the "Apply changes" handler in progress
    engine_trigger, \* the user event whose script run last called categorise_transactions
    result        \* outcome of the last direct call of add_keyword_to_category

vars == <<categories, file, saves, uploaded, debit_df, credit_df, pc, commit,
          engine_trigger, result>>

-----------------------------------------------------------------------------
(* Text *)

\* str.lower() on one character
LowerChar(c) ==
    CASE c = "E" -> "e"
      [] c = "S" -> "s"
      [] c = "W" -> "w"
      [] c = "P" -> "p"
      [] OTHER -> c

\* str.lower()
Lower(s) == [i \in 1..Len(s) |-> LowerChar(s[i])]

\* the whitespace characters of str.strip() and str.split()
IsSpace(c) == c = " "

RECURSIVE LStrip(_)
\* str.lstrip()
LStrip(s) == IF s # <<>> /\ IsSpace(Head(s)) THEN LStrip(Tail(s)) ELSE s

RECURSIVE RStrip(_)
\* str.rstrip()
RStrip(s) ==
    IF s # <<>> /\ IsSpace(s[Len(s)]) THEN RStrip(SubSeq(s, 1, Len(s) - 1)) ELSE s

\* str.strip()
Strip(s) == RStrip(LStrip(s))

\* Normalise without lower(): the fault of a keyword stored in the narrative's case
NormaliseStripOnly(s) == Strip(s)

\* keyword.lower().strip(), row["Narrative"].lower().strip()
Normalise(s) == Strip(Lower(s))

\* `k in d` on strings: k is a substring of d (the empty string is one of any)
Contains(k, d) ==
    \E i \in 0..(Len(d) - Len(k)) : SubSeq(d, i + 1, i + Len(k)) = k

RECURSIVE SplitFrom(_, _, _)
\* str.split() with no separator: the maximal runs of non-whitespace;
\* cur is the token being read, acc the tokens read
SplitFrom(s, cur, acc) ==
    IF s = <<>> THEN (IF cur = <<>> THEN acc ELSE Append(acc, cur))
    ELSE IF IsSpace(Head(s))
         THEN SplitFrom(Tail(s), <<>>, IF cur = <<>> THEN acc ELSE Append(acc, cur))
         ELSE SplitFrom(Tail(s), Append(cur, Head(s)), acc)

\* str.split()
Split(s) == SplitFrom(s, <<>>, <<>>)

RECURSIVE Join(_)
\* " ".join(tokens)
Join(tokens) ==
    IF tokens = <<>> THEN <<>>
    ELSE IF Len(tokens) = 1 THEN tokens[1]
    ELSE tokens[1] \o <<" ">> \o Join(Tail(tokens))

\* the slice bounds of row["Narrative"].split()[3:6]
TokenFrom == 3
TokenTo == 6

Min(a, b) == IF a < b THEN a ELSE b

\* tokens[TokenFrom:TokenTo]: a Python slice, cut to the list's length
Slice(tokens) == SubSeq(tokens, TokenFrom + 1, Min(TokenTo, Len(tokens)))

\* " ".join(row["Narrative"].split()[3:6])
ExtractDetails(narrative) == Join(Slice(Split(narrative)))

-----------------------------------------------------------------------------
(* The category store and categories.json *)

Uncategorised == "Uncategorised"

\* {"Uncategorised": []}
DefaultCategories == << [name |-> Uncategorised, keywords |-> <<>>] >>

\* list(st.session_state.categories.keys())
Keys(cats) == {cats[i].name : i \in DOMAIN cats}

\* the position of a key in the dict's insertion order
IndexOf(cats, c) == CHOOSE i \in DOMAIN cats : cats[i].name = c

\* st.session_state.categories[category]
KeywordsOf(cats, c) == cats[IndexOf(cats, c)].keywords

\* keyword in list
InList(k, list) == \E j \in DOMAIN list : list[j] = k

\* os.path.exists(category_file) is False
NoFile == << [t |-> "absent", v |-> <<>>] >>

RECURSIVE DumpKeywords(_)
DumpKeywords(kws) ==
    IF kws = <<>> THEN <<>>
    ELSE << [t |-> "str", v |-> Head(kws)] >> \o DumpKeywords(Tail(kws))

RECURSIVE DumpEntries(_)
DumpEntries(cats) ==
    IF cats = <<>> THEN <<>>
    ELSE << [t |-> "key", v |-> <<Head(cats).name>>], [t |-> "[", v |-> <<>>] >>
         \o DumpKeywords(Head(cats).keywords)
         \o << [t |-> "]", v |-> <<>>] >>
         \o DumpEntries(Tail(cats))

\* json.dump(dict of str -> list of str): the document as its sequence of tokens
Dump(cats) ==
    << [t |-> "{", v |-> <<>>] >> \o DumpEntries(cats) \o << [t |-> "}", v |-> <<>>] >>

RECURSIVE ParseFrom(_, _, _)
\* json.load: read the tokens back into a dict. A key sets d[key] = [] (a key
\* seen again keeps its first position and loses its value); a string is
\* appended to the list of the key being read, the entry at cur
ParseFrom(toks, acc, cur) ==
    IF toks = <<>> THEN acc
    ELSE LET tk == Head(toks) IN
         CASE tk.t = "key" ->
                 LET nm == tk.v[1] IN
                 IF nm \in Keys(acc)
                 THEN ParseFrom(Tail(toks),
                                [acc EXCEPT ![IndexOf(acc, nm)].keywords = <<>>],
                                IndexOf(acc, nm))
                 ELSE ParseFrom(Tail(toks),
                                Append(acc, [name |-> nm, keywords |-> <<>>]),
                                Len(acc) + 1)
           [] tk.t = "str" ->
                 ParseFrom(Tail(toks), [acc EXCEPT ![cur].keywords = Append(@, tk.v)], cur)
           [] OTHER -> ParseFrom(Tail(toks), acc, cur)

\* json.load(f)
Load(f) == ParseFrom(f, <<>>, 0)

\* save_categories writing only the categories that hold a keyword: the fault of
\* a file that loses the empty keyword lists
save_categories_non_empty(cats) == Dump(SelectSeq(cats, LAMBDA e : e.keywords # <<>>))

\* save_categories(): the whole store overwrites the file
save_categories(cats) == Dump(cats)

\* add_keyword_to_category(category, keyword) on a store, the file and the save
\* count: the state it leaves and what it returns. categories[category] on a
\* missing key raises KeyError, after `keyword and` has let a non-empty keyword
\* through
add_keyword_to_category(cats, f, sv, category, keyword) ==
    LET kw == Normalise(keyword) IN
    IF kw = <<>>
    THEN [categories |-> cats, file |-> f, saves |-> sv, ret |-> "False"]
    ELSE IF category \notin Keys(cats)
    THEN [categories |-> cats, file |-> f, saves |-> sv, ret |-> "KeyError"]
    ELSE IF InList(kw, KeywordsOf(cats, category))
    THEN [categories |-> cats, file |-> f, saves |-> sv, ret |-> "False"]
    ELSE LET grown == [cats EXCEPT ![IndexOf(cats, category)].keywords = Append(@, kw)]
         IN [categories |-> grown, file |-> save_categories(grown), saves |-> sv + 1,
             ret |-> "True"]

-----------------------------------------------------------------------------
(* Ledgers and the categorisation engine *)

\* "E W 1 S": four tokens, split()[3:6] is ["S"]
NarrShop == <<"E", " ", "W", " ", "1", " ", "S">>
\* "E W": fewer than four tokens, split()[3:6] is []
NarrShort == <<"E", " ", "W">>
\* " P x y S  W z q": seven tokens behind a leading blank, two blanks after S;
\* split()[3:6] is ["S", "W", "z"]
NarrWide == <<" ", "P", " ", "x", " ", "y", " ", "S", " ", " ", "W", " ", "z", " ", "q">>

\* the CSV files the user may upload: rows of Narrative, Debit Amount and
\* Credit Amount (after fillna(0)); "bad" holds a date that is not DD/MM/YYYY
LedgerIds == {"A", "B", "bad"}

NoUpload == "none"

LedgerRows(l) ==
    CASE l = "A" -> << [Narrative |-> NarrShop,  Debit |-> 45, Credit |-> 0],
                       [Narrative |-> NarrShort, Debit |-> 10, Credit |-> 0],
                       [Narrative |-> NarrWide,  Debit |-> 0,  Credit |-> 20] >>
      [] l = "B" -> << [Narrative |-> NarrWide,  Debit |-> 5,  Credit |-> 0],
                       [Narrative |-> NarrShop,  Debit |-> 0,  Credit |-> 0],
                       [Narrative |-> NarrShort, Debit |-> 0,  Credit |-> 7] >>
      [] OTHER -> <<>>

\* pd.to_datetime(df['Date'], format='%d/%m/%Y') does not raise
Parses(l) == l \in {"A", "B"}

RECURSIVE CategoriseLoopFirstWins(_, _, _)
\* CategoriseLoop with a first-match rule: a row that a category has taken is
\* not overwritten by a later one
CategoriseLoopFirstWins(cats, i, df) ==
    IF i > Len(cats) THEN df
    ELSE LET e == cats[i] IN
         IF e.name = Uncategorised \/ e.keywords = <<>>
         THEN CategoriseLoopFirstWins(cats, i + 1, df)
         ELSE LET lowered == [j \in DOMAIN e.keywords |-> Normalise(e.keywords[j])]
                  hit(idx) == /\ df[idx].Category = Uncategorised
                              /\ \E j \in DOMAIN lowered :
                                    Contains(lowered[j], Normalise(df[idx].Narrative))
              IN CategoriseLoopFirstWins(cats, i + 1,
                     [idx \in DOMAIN df |->
                         IF hit(idx) THEN [df[idx] EXCEPT !.Category = e.name]
                         ELSE df[idx]])

RECURSIVE CategoriseLoop(_, _, _)
\* the loop over st.session_state.categories.items() from entry i on: every
\* category that is not skipped overwrites the Category of the rows it matches
CategoriseLoop(cats, i, df) ==
    IF i > Len(cats) THEN df
    ELSE LET e == cats[i] IN
         IF e.name = Uncategorised \/ e.keywords = <<>>
         THEN CategoriseLoop(cats, i + 1, df)
         ELSE LET lowered == [j \in DOMAIN e.keywords |-> Normalise(e.keywords[j])]
                  hit(idx) == \E j \in DOMAIN lowered :
                                  Contains(lowered[j], Normalise(df[idx].Narrative))
              IN CategoriseLoop(cats, i + 1,
                     [idx \in DOMAIN df |->
                         IF hit(idx) THEN [df[idx] EXCEPT !.Category = e.name]
                         ELSE df[idx]])

\* categorise_transactions with a default label that is no key of the store
categorise_transactions_misspelt(cats, rows) ==
    CategoriseLoop(cats, 1,
        [idx \in DOMAIN rows |->
            [Narrative |-> rows[idx].Narrative, Debit |-> rows[idx].Debit,
             Credit |-> rows[idx].Credit, Category |-> "Uncategorized"]])

\* categorise_transactions(df)
categorise_transactions(cats, rows) ==
    CategoriseLoop(cats, 1,
        [idx \in DOMAIN rows |->
            [Narrative |-> rows[idx].Narrative, Debit |-> rows[idx].Debit,
             Credit |-> rows[idx].Credit, Category |-> Uncategorised]])

\* load_transactions(file) when nothing raises
load_transactions(cats, l) == categorise_transactions(cats, LedgerRows(l))

\* df[df['Debit Amount'] > 0].drop(columns=['Credit Amount']).copy()
DebitOf(df) ==
    [idx \in {i \in DOMAIN df : df[i].Debit > 0} |->
        [Narrative |-> df[idx].Narrative, Amount |-> df[idx].Debit,
         Category |-> df[idx].Category]]

\* df[df['Credit Amount'] > 0].drop(columns=['Debit Amount']).copy()
CreditOf(df) ==
    [idx \in {i \in DOMAIN df : df[i].Credit > 0} |->
        [Narrative |-> df[idx].Narrative, Amount |-> df[idx].Credit,
         Category |-> df[idx].Category]]

-----------------------------------------------------------------------------
(* One run of the script *)

\* lines 14-21: the session's store, replaced by the file's when the file exists
ScriptTop(cats, f) == IF f # NoFile THEN Load(f) ELSE cats

\* `uploaded_file is not None` and `df is not None`: the page below is drawn
Rendered(up) == up # NoUpload /\ Parses(up)

\* the script from its first line to the widgets: the store after the load, and
\* the working sets, rebuilt from the uploaded file when it parses
ScriptRun(cats, f, up, deb, cred) ==
    LET top == ScriptTop(cats, f) IN
    IF Rendered(up)
    THEN LET df == load_transactions(top, up) IN
         [categories |-> top, debit_df |-> DebitOf(df), credit_df |-> CreditOf(df)]
    ELSE [categories |-> top, debit_df |-> deb, credit_df |-> cred]

-----------------------------------------------------------------------------
(* State and user events *)

\* the names the user may type into "New Category Name" ("" is an empty input)
NameInputs == {"", Uncategorised, "Dining", "dining"}

NoCommit == [tab |-> "none", edited |-> <<>>, todo |-> <<>>, changed |-> {}]

RECURSIVE InOrder(_)
\* the index values of a frame in the order iterrows() yields them
InOrder(S) ==
    IF S = {} THEN <<>>
    ELSE LET m == CHOOSE x \in S : \A y \in S : x <= y
         IN <<m>> \o InOrder(S \ {m})

\* st.session_state.debit_df or st.session_state.credit_df
Working(tab) == IF tab = "debit" THEN debit_df ELSE credit_df

\* a process start with no categories.json, the first run of the script done
Init ==
    /\ categories = DefaultCategories
    /\ file = NoFile
    /\ saves = 0
    /\ uploaded = NoUpload
    /\ debit_df = <<>>
    /\ credit_df = <<>>
    /\ pc = "idle"
    /\ commit = NoCommit
    /\ engine_trigger = "none"
    /\ result = "none"

\* the user puts a CSV file into the uploader: one run of the script
Upload(l) ==
    /\ pc = "idle"
    /\ \E run \in {ScriptRun(categories, file, l, debit_df, credit_df)} :
       /\ categories' = run.categories
       /\ debit_df' = run.debit_df
       /\ credit_df' = run.credit_df
    /\ uploaded' = l
    /\ engine_trigger' = IF Parses(l) THEN "upload" ELSE engine_trigger
    /\ commit' = NoCommit
    /\ UNCHANGED <<file, saves, pc, result>>

\* AddCategory without the test `new_category in st.session_state.categories`:
\* a name that is a key is set again and saved
AddCategoryNoCheck(n) ==
    /\ pc = "idle"
    /\ Rendered(uploaded)
    /\ \E run \in {ScriptRun(categories, file, uploaded, debit_df, credit_df)} :
       /\ debit_df' = run.debit_df
       /\ credit_df' = run.credit_df
       /\ IF n = ""
          THEN /\ categories' = run.categories
               /\ UNCHANGED <<file, saves, pc>>
          ELSE /\ categories' =
                    IF n \in Keys(run.categories)
                    THEN [run.categories EXCEPT ![IndexOf(run.categories, n)].keywords = <<>>]
                    ELSE Append(run.categories, [name |-> n, keywords |-> <<>>])
               /\ file' = save_categories(categories')
               /\ saves' = saves + 1
               /\ pc' = "rerun"
    /\ engine_trigger' = "add_category"
    /\ commit' = NoCommit
    /\ UNCHANGED <<uploaded, result>>

\* the user clicks "Add Category" with n in the text input: the run the click
\* starts, up to the end of the handler (lines 108-115)
AddCategory(n) ==
    /\ pc = "idle"
    /\ Rendered(uploaded)
    /\ \E run \in {ScriptRun(categories, file, uploaded, debit_df, credit_df)} :
       /\ debit_df' = run.debit_df
       /\ credit_df' = run.credit_df
       /\ IF n = "" \/ n \in Keys(run.categories)
          THEN /\ categories' = run.categories
               /\ UNCHANGED <<file, saves, pc>>
          ELSE /\ categories' = Append(run.categories, [name |-> n, keywords |-> <<>>])
               /\ file' = save_categories(categories')
               /\ saves' = saves + 1
               /\ pc' = "rerun"
    /\ engine_trigger' = "add_category"
    /\ commit' = NoCommit
    /\ UNCHANGED <<uploaded, result>>

\* the user clicks "Apply changes" on a tab: the run the click starts, up to the
\* head of the loop over the rows (lines 137-138, 165-166). `edited` is the
\* Category column the editor returns: for every row of the tab's working set
\* as this run rebuilt it, an option of the selectbox (a key of the store)
CommitStart(tab) ==
    /\ pc = "idle"
    /\ Rendered(uploaded)
    /\ \E run \in {ScriptRun(categories, file, uploaded, debit_df, credit_df)} :
       LET shown == IF tab = "debit" THEN run.debit_df ELSE run.credit_df IN
       \E edited \in [DOMAIN shown -> Keys(run.categories)] :
       /\ categories' = run.categories
       /\ debit_df' = run.debit_df
       /\ credit_df' = run.credit_df
       /\ commit' = [tab |-> tab, edited |-> edited, todo |-> InOrder(DOMAIN shown),
                     changed |-> {}]
       /\ pc' = IF DOMAIN shown = {} THEN "rerun" ELSE "loop"
    /\ engine_trigger' = "commit"
    /\ UNCHANGED <<file, saves, uploaded, result>>

\* CommitRow without the `continue` of an unchanged row: every row teaches its
\* keyword to the category the editor returns
CommitRowNoSkip ==
    /\ pc = "loop"
    /\ LET idx == Head(commit.todo)
           rest == Tail(commit.todo)
           df == Working(commit.tab)
           new_category == commit.edited[idx]
           details == ExtractDetails(df[idx].Narrative)
           set == [df EXCEPT ![idx].Category = new_category]
           r == add_keyword_to_category(categories, file, saves, new_category, details)
       IN
       /\ debit_df' = IF commit.tab = "debit" THEN set ELSE debit_df
       /\ credit_df' = IF commit.tab = "credit" THEN set ELSE credit_df
       /\ categories' = r.categories
       /\ file' = r.file
       /\ saves' = r.saves
       /\ commit' = [commit EXCEPT !.todo = rest,
                        !.changed = IF new_category = df[idx].Category THEN @ ELSE @ \cup {idx}]
       /\ pc' = IF r.ret = "KeyError" THEN "idle"
                ELSE IF rest = <<>> THEN "rerun" ELSE "loop"
    /\ UNCHANGED <<uploaded, engine_trigger, result>>

\* one pass of the loop body (lines 139-145, 167-173) over the next row
CommitRow ==
    /\ pc = "loop"
    /\ LET idx == Head(commit.todo)
           rest == Tail(commit.todo)
           df == Working(commit.tab)
           new_category == commit.edited[idx]
       IN
       IF new_category = df[idx].Category
       THEN /\ commit' = [commit EXCEPT !.todo = rest]
            /\ pc' = IF rest = <<>> THEN "rerun" ELSE "loop"
            /\ UNCHANGED <<categories, file, saves, debit_df, credit_df>>
       ELSE LET details == ExtractDetails(df[idx].Narrative)
                set == [df EXCEPT ![idx].Category = new_category]
                r == add_keyword_to_category(categories, file, saves, new_category, details)
            IN
            /\ debit_df' = IF commit.tab = "debit" THEN set ELSE debit_df
            /\ credit_df' = IF commit.tab = "credit" THEN set ELSE credit_df
            /\ categories' = r.categories
            /\ file' = r.file
            /\ saves' = r.saves
            /\ commit' = [commit EXCEPT !.todo = rest, !.changed = @ \cup {idx}]
            /\ pc' = IF r.ret = "KeyError" THEN "idle"
                     ELSE IF rest = <<>> THEN "rerun" ELSE "loop"
    /\ UNCHANGED <<uploaded, engine_trigger, result>>

\* st.rerun(): the script runs again from its first line, no button pressed
Rerun ==
    /\ pc = "rerun"
    /\ \E run \in {ScriptRun(categories, file, uploaded, debit_df, credit_df)} :
       /\ categories' = run.categories
       /\ debit_df' = run.debit_df
       /\ credit_df' = run.credit_df
    /\ engine_trigger' = IF Rendered(uploaded) THEN "rerun" ELSE engine_trigger
    /\ pc' = "idle"
    /\ UNCHANGED <<file, saves, uploaded, commit, result>>

\* the process starts again (or a new browser session opens): session_state is
\* empty, lines 14-21 build the store, nothing is uploaded
NewSession ==
    /\ pc = "idle"
    /\ categories' = ScriptTop(DefaultCategories, file)
    /\ uploaded' = NoUpload
    /\ debit_df' = <<>>
    /\ credit_df' = <<>>
    /\ commit' = NoCommit
    /\ engine_trigger' = "none"
    /\ UNCHANGED <<file, saves, pc, result>>

Next ==
    \/ \E l \in LedgerIds : Upload(l)
    \/ \E n \in NameInputs : AddCategory(n)
    \/ \E tab \in {"debit", "credit"} : CommitStart(tab)
    \/ CommitRow
    \/ Rerun
    \/ NewSession

Spec == Init /\ [][Next]_vars

-----------------------------------------------------------------------------
(* The engine and add_keyword_to_category on any store *)

\* the keywords of the stores a categories.json may hold at a process start:
\* upper case, a leading blank, and a blank alone
EngineKeywords == { <<"S">>, <<" ", "w">>, <<" ">> }

\* the longest keyword list of a category in those stores
MaxInitKw == 1

StoreNames == {Uncategorised, "Dining", "dining"}

KeywordLists == UNION { [1..n -> EngineKeywords] : n \in 0..MaxInitKw }

\* the category names of a store in each insertion order
NameOrders ==
    { ns \in UNION { [1..n -> StoreNames] : n \in 0..Cardinality(StoreNames) } :
        \A i, j \in DOMAIN ns : i # j => ns[i] # ns[j] }

StoreUniverse ==
    UNION { { [i \in DOMAIN ns |-> [name |-> ns[i], keywords |-> kl[i]]] :
                kl \in [DOMAIN ns -> KeywordLists] } : ns \in NameOrders }

\* a process start with a categories.json holding any store of the universe,
\* loaded by lines 19-21
InitEngine ==
    /\ categories \in StoreUniverse
    /\ file = Dump(categories)
    /\ saves = 0
    /\ uploaded = NoUpload
    /\ debit_df = <<>>
    /\ credit_df = <<>>
    /\ pc = "idle"
    /\ commit = NoCommit
    /\ engine_trigger = "none"
    /\ result = "none"

NextEngine == \E l \in LedgerIds : Upload(l)

\* load_transactions and categorise_transactions over every store
SpecEngine == InitEngine /\ [][NextEngine]_vars

\* the category and keyword arguments of a direct call
CallCategories == {Uncategorised, "Dining", "dining"}
CallKeywords == { <<" ">>, <<"S">>, <<" ", "s">> }

\* add_keyword_to_category(c, k), its outcome kept in result
CallAddKeyword(c, k) ==
    /\ pc = "idle"
    /\ LET r == add_keyword_to_category(categories, file, saves, c, k) IN
       /\ categories' = r.categories
       /\ file' = r.file
       /\ saves' = r.saves
       /\ result' = r.ret
    /\ UNCHANGED <<uploaded, debit_df, credit_df, pc, commit, engine_trigger>>

NextKw == \E c \in CallCategories : \E k \in CallKeywords : CallAddKeyword(c, k)

\* add_keyword_to_category over every store
SpecKw == InitEngine /\ [][NextKw]_vars

-----------------------------------------------------------------------------
(* Properties *)

\* the rows of both working sets, as (tab, index) pairs
WorkingRows == {<<tab, idx>> \in {"debit", "credit"} \X (DOMAIN debit_df \cup DOMAIN credit_df) :
                   idx \in DOMAIN Working(tab)}

\* a category the engine considers, one of whose keywords, lower-cased and
\* trimmed, is a substring of the lower-cased, trimmed narrative
Matches(e, narrative) ==
    /\ e.name # Uncategorised
    /\ e.keywords # <<>>
    /\ \E j \in DOMAIN e.keywords :
          Contains(Normalise(e.keywords[j]), Normalise(narrative))

\* the last matching category in insertion order, "Uncategorised" if there is none
LastMatch(cats, narrative) ==
    LET M == {i \in DOMAIN cats : Matches(cats[i], narrative)} IN
    IF M = {} THEN Uncategorised
    ELSE cats[CHOOSE i \in M : \A j \in M : j <= i].name

\* C1: for every store and every transaction, categorise_transactions assigns
\* the last category in insertion order (not "Uncategorised", keyword list not
\* empty) with a keyword that, lower-cased and trimmed, is a substring of the
\* lower-cased, trimmed narrative, and "Uncategorised" when there is none.
C1_LastMatchWins ==
    \A w \in WorkingRows :
        Working(w[1])[w[2]].Category = LastMatch(categories, Working(w[1])[w[2]].Narrative)

\* C1 witness: two categories match a row, and the row holds the later one.
C1_TwoMatchLaterHeld ==
    \E w \in WorkingRows : \E i, j \in DOMAIN categories :
        /\ i < j
        /\ Matches(categories[i], Working(w[1])[w[2]].Narrative)
        /\ Matches(categories[j], Working(w[1])[w[2]].Narrative)
        /\ Working(w[1])[w[2]].Category = categories[j].name

\* C2: once an "Apply changes" commit and the rerun it triggers have completed,
\* every row whose category the user changed holds the category the user chose.
C2_OverrideHeldAfterCommit ==
    (pc = "idle" /\ commit.tab # "none") =>
        \A idx \in commit.changed :
            Working(commit.tab)[idx].Category = commit.edited[idx]

\* C3: add_keyword_to_category(c, k) returns False, changes neither the store
\* nor the file, saves nothing and raises nothing when the normalised keyword
\* is empty, when c is no key of the store or when the keyword is already in
\* c's list; otherwise it appends the normalised keyword to c, persists the
\* store and returns True.
C3_AddKeywordContract ==
    [][\A c \in CallCategories : \A k \in CallKeywords :
         CallAddKeyword(c, k) =>
           IF \/ Normalise(k) = <<>>
              \/ c \notin Keys(categories)
              \/ InList(Normalise(k), KeywordsOf(categories, c))
           THEN result' = "False" /\ UNCHANGED <<categories, file, saves>>
           ELSE /\ result' = "True"
                /\ categories' = [categories EXCEPT
                       ![IndexOf(categories, c)].keywords = Append(@, Normalise(k))]
                /\ file # file' /\ Load(file') = categories'
                /\ saves' = saves + 1]_vars

\* C4: from the default store, "Uncategorised" is always a key of the store and
\* its keyword list is empty.
C4_UncategorisedEmpty ==
    /\ Uncategorised \in Keys(categories)
    /\ KeywordsOf(categories, Uncategorised) = <<>>

\* the row the loop is about to visit holds the category the editor returns
AtUnchangedRow ==
    /\ pc = "loop"
    /\ commit.edited[Head(commit.todo)] = Working(commit.tab)[Head(commit.todo)].Category

\* C5: in an "Apply changes" commit a row whose edited category equals its
\* stored category changes neither the store, the file, the number of saves nor
\* the working sets; and the steps of a commit other than the visit of a
\* changed row (the click's run, the rerun) leave store, file and saves alone,
\* so that a commit with no changed row leaves them unchanged.
C5_UnchangedRowsSkipped ==
    [][/\ AtUnchangedRow => UNCHANGED <<categories, file, saves, debit_df, credit_df>>
       /\ (\E tab \in {"debit", "credit"} : CommitStart(tab)) =>
              UNCHANGED <<categories, file, saves>>
       /\ (pc = "rerun" /\ commit.tab # "none") => UNCHANGED <<categories, file, saves>>
      ]_vars

\* C5 witness: the loop has passed an unchanged row whose narrative yields a
\* keyword, in a commit that changed another row.
C5_SkippedBesideChanged ==
    /\ pc \in {"loop", "rerun"}
    /\ commit.changed # {}
    /\ \E idx \in DOMAIN commit.edited :
          /\ idx \notin commit.changed
          /\ \A k \in DOMAIN commit.todo : commit.todo[k] # idx
          /\ ExtractDetails(Working(commit.tab)[idx].Narrative) # <<>>

\* C6: "Add Category" with a name that is a key of the store changes neither
\* the store nor the file and saves nothing; with a non-empty name that is no
\* key it appends the name with an empty keyword list, leaves every other
\* entry as it was, and persists the store.
C6_AddCategoryFrame ==
    [][\A n \in NameInputs \ {""} :
         AddCategory(n) =>
           IF n \in Keys(categories)
           THEN UNCHANGED <<categories, file, saves>>
           ELSE /\ categories' = Append(categories, [name |-> n, keywords |-> <<>>])
                /\ Load(file') = categories'
                /\ saves' = saves + 1]_vars

\* C6 witness: "dining" has just been added to a store that holds "Dining",
\* a distinct key, with a learned keyword.
C6_AddedBesideLearned ==
    /\ pc = "rerun"
    /\ engine_trigger = "add_category"
    /\ categories[Len(categories)] = [name |-> "dining", keywords |-> <<>>]
    /\ \E i \in DOMAIN categories :
          categories[i].name = "Dining" /\ categories[i].keywords # <<>>

\* C7: the persisted store equals the store in memory: what lines 14-21 build
\* at a process start (the default store, or the file's content when the file
\* exists) is the store in memory, entry for entry and keyword for keyword in
\* insertion order.
C7_PersistedEqualsMemory == ScriptTop(DefaultCategories, file) = categories

\* C7 witness: the file exists and the store holds a category with two keywords
\* beside one with none.
C7_TwoKeywordsAndEmpty ==
    /\ file # NoFile
    /\ \E i, j \in DOMAIN categories :
          Len(categories[i].keywords) >= 2 /\ categories[j].keywords = <<>>

UpperChars == {"E", "S", "W", "P"}

\* C8: from the default store, no keyword list holds a string twice, and every
\* stored keyword is lower-case with no blank at either end.
C8_KeywordsNormalisedDistinct ==
    \A i \in DOMAIN categories :
        LET kws == categories[i].keywords IN
        /\ \A j, k \in DOMAIN kws : j # k => kws[j] # kws[k]
        /\ \A j \in DOMAIN kws :
              /\ \A c \in DOMAIN kws[j] : kws[j][c] \notin UpperChars
              /\ kws[j] # <<>> => (kws[j][1] # " " /\ kws[j][Len(kws[j])] # " ")

\* C8 witness: a category holds two learned keywords, one of them of several
\* tokens, each learned from an upper-case narrative.
C8_TwoLearnedKeywords ==
    \E i \in DOMAIN categories :
        /\ InList(<<"s">>, categories[i].keywords)
        /\ InList(<<"s", " ", "w", " ", "z">>, categories[i].keywords)

C10_RerunKeepsWorkingSets ==
    [][pc = "rerun" =>
          /\ engine_trigger' = engine_trigger
          /\ UNCHANGED <<debit_df, credit_df>>]_vars

=============================================================================
